---- MODULE Spec2Model ----
(***************************************************************************)
(* The skill-transfer recommendation engine of the nursing insights app:   *)
(* InsightService.compute_skill_transfer_options (services/insight_        *)
(* service.py) and the module-level compute_skill_transfer_options         *)
(* (utils/llm_functions.py), over the two reference tables the data layer  *)
(* loads (utils/cache_functions.py).                                       *)
(*                                                                         *)
(* A Python str is a sequence of one-character strings, so that lower(),   *)
(* strip(), replace() and split() are computed character by character.     *)
(* A DataFrame is the sequence of its rows, a row a record of its columns. *)
(***************************************************************************)
EXTENDS Naturals, Integers, Sequences, FiniteSets, TLC

VARIABLES
    skills_df,    \* the overlap table the data layer holds (skills_overlap())
    avg_pay_df,   \* the pay table the data layer holds (average_pay_model())
    sortBuild,    \* which argsort kernel this build's numpy dispatches to
    call,         \* the engine call of the current script run, or NoCall
    ret,          \* what that call returned, or NoRet
    ret2,         \* what a second call with the same arguments returned, or NoRet
    sess,         \* the engine calls in flight, one per UI session
    cell,         \* a shared_skill_names text on its way through safe_parse_skills
    gpt,          \* the bullet refinement of the current script run
    auth,         \* st.session_state of the password gate, and what it showed
    cost          \* st.session_state.cost_tracker, and the CostTracker objects

vars == <<skills_df, avg_pay_df, sortBuild, call, ret, ret2, sess, cell, gpt, auth, cost>>

\* what the password gate, the cost tracker and the refinement hold
app_vars == <<gpt, auth, cost>>

\* what the calls of one script run leave alone
other_vars == <<sess, cell, gpt, auth, cost>>

----------------------------------------------------------------------------
(* Python values *)

\* None, and SQL NULL / NaN in a text column: not a str.
None == <<"None">>

\* NaN in a numeric column is the empty option, a number x is <<x>>.
NaN == <<>>

Empty == <<>>
Blank == <<" ">>
ICU == <<"I", "C", "U">>
icu == <<"i", "c", "u">>
ER == <<"E", "R">>
ONC == <<"O", "n", "c">>

UpperChars ==
    <<"A", "B", "C", "D", "E", "F", "G", "H", "I", "J", "K", "L", "M",
      "N", "O", "P", "Q", "R", "S", "T", "U", "V", "W", "X", "Y", "Z">>

LowerChars ==
    <<"a", "b", "c", "d", "e", "f", "g", "h", "i", "j", "k", "l", "m",
      "n", "o", "p", "q", "r", "s", "t", "u", "v", "w", "x", "y", "z">>

Whitespace == {" ", "\t", "\n"}

LowerChar(c) ==
    IF \E i \in DOMAIN UpperChars : UpperChars[i] = c
    THEN LowerChars[CHOOSE i \in DOMAIN UpperChars : UpperChars[i] = c]
    ELSE c

\* str.lower()
lower(s) == [i \in DOMAIN s |-> LowerChar(s[i])]

\* str.strip(chars): drop the leading and trailing characters that are in chars.
RECURSIVE lstrip(_, _)
lstrip(s, chars) ==
    IF s # <<>> /\ Head(s) \in chars THEN lstrip(Tail(s), chars) ELSE s

RECURSIVE rstrip(_, _)
rstrip(s, chars) ==
    IF s # <<>> /\ s[Len(s)] \in chars
    THEN rstrip(SubSeq(s, 1, Len(s) - 1), chars)
    ELSE s

strip(s, chars) == rstrip(lstrip(s, chars), chars)

\* str.replace(c, ""): drop every occurrence of the character c.
remove(s, c) == SelectSeq(s, LAMBDA x : x # c)

\* str.split(sep) for a one-character separator: empty pieces are kept.
RECURSIVE split(_, _)
split(s, sep) ==
    IF \E i \in DOMAIN s : s[i] = sep
    THEN LET k == CHOOSE i \in DOMAIN s :
                      s[i] = sep /\ \A j \in 1..(i - 1) : s[j] # sep
         IN <<SubSeq(s, 1, k - 1)>> \o split(SubSeq(s, k + 1, Len(s)), sep)
    ELSE <<s>>

\* sep.join(items)
RECURSIVE join(_, _)
join(items, sep) ==
    IF items = <<>> THEN <<>>
    ELSE IF Len(items) = 1 THEN items[1]
    ELSE items[1] \o sep \o join(Tail(items), sep)

\* The value of a shared_skill_names cell: a str, a list or NULL.
PyStr(chars) == [type |-> "str", chars |-> chars]
PyList(items) == [type |-> "list", items |-> items]
PyNone == [type |-> "NoneType"]

----------------------------------------------------------------------------
(* The three reasons the engine returns, and its return values *)

MissingSpecialty == "'specialty' is missing or null"
NoOverlapData == "No skill overlap data available."
NoPositiveTransfer == "No higher-paying specialties with strong skill overlap found."
NoError == "None"

\* return reason, pd.DataFrame(): `read` is the set of input tables the call
\* has indexed by the time it returns.
Return(reason, rows, read) ==
    [status |-> "return", err |-> reason, rows |-> rows, read |-> read]

\* the call raises instead of returning
Raise(read) ==
    [status |-> "raise", err |-> "exception", rows |-> <<>>, read |-> read]

NoCall == [impl |-> "none"]
NoRet == [status |-> "none"]

----------------------------------------------------------------------------
(* InsightService.compute_skill_transfer_options, step by step *)

TopN == 5

\* a guard that tests for None alone
specialty_is_none(specialty) == specialty = None

\* not specialty or pd.isna(specialty)
specialty_missing(specialty) == specialty = None \/ specialty = Empty

\* the column lowered, the query not
overlaps_of_case_sensitive(specialty, df) ==
    SelectSeq(df, LAMBDA r :
        r.specialty_1 # None /\ lower(r.specialty_1) = specialty)

\* a NULL specialty_1 counted as a match
overlaps_of_na_matches(specialty, df) ==
    SelectSeq(df, LAMBDA r :
        r.specialty_1 = None \/ lower(r.specialty_1) = lower(specialty))

\* skills_df[skills_df["specialty_1"].str.lower() == specialty.lower()]
\* (.str.lower() of a NULL cell is NaN, which equals no string)
overlaps_of(specialty, df) ==
    SelectSeq(df, LAMBDA r :
        r.specialty_1 # None /\ lower(r.specialty_1) = lower(specialty))

\* the filter on the state left out
avg_df_of_any_state(years_of_experience_group, state, df) ==
    SelectSeq(df, LAMBDA r :
        r.total_years_of_experience_group = years_of_experience_group)

\* the pay rows of the state, whatever the experience bracket
avg_df_of_any_group(years_of_experience_group, state, df) ==
    SelectSeq(df, LAMBDA r : r.state = state)

\* avg_pay_df[(group == years_of_experience_group) & (state == state)]
avg_df_of(years_of_experience_group, state, df) ==
    SelectSeq(df, LAMBDA r :
        /\ r.total_years_of_experience_group = years_of_experience_group
        /\ r.state = state)

\* one row of the merged frame: the overlap row's columns and the pay row's
merged_row(l, r) ==
    [specialty_2 |-> l.specialty_2,
     shared_skill_names |-> l.shared_skill_names,
     avg_importance |-> l.avg_importance,
     overlap_percentage |-> l.overlap_percentage,
     total_years_of_experience_group |-> r.total_years_of_experience_group,
     state |-> r.state,
     avg_base_pay |-> r.avg_base_pay]

\* a left row that found no match given a default benchmark
unmatched_filled == [total_years_of_experience_group |-> "NaN", state |-> "NaN",
                     avg_base_pay |-> <<9>>]

\* the right-hand columns of a left row that found no match: all NaN
unmatched == [total_years_of_experience_group |-> "NaN", state |-> "NaN",
              avg_base_pay |-> NaN]

\* overlaps.merge(avg_df, left_on="specialty_2", right_on="specialty",
\* how="left"): the left rows in their order, each once per matching right row
\* (in the right table's order), or once with NaN when none matches.
RECURSIVE merge_left(_, _)
merge_left(left, right) ==
    IF left = <<>> THEN <<>>
    ELSE LET l == Head(left)
             ms == SelectSeq(right, LAMBDA r : r.specialty = l.specialty_2)
         IN (IF ms = <<>> THEN <<merged_row(l, unmatched)>>
             ELSE [k \in DOMAIN ms |-> merged_row(l, ms[k])])
            \o merge_left(Tail(left), right)

\* .dropna(subset=["avg_base_pay"])
dropna(rows) == SelectSeq(rows, LAMBDA r : r.avg_base_pay # NaN)

\* merged["pay_increase"] = merged["avg_base_pay"] - user_base_pay
with_pay_increase(rows, user_base_pay) ==
    [k \in DOMAIN rows |->
        [specialty_2 |-> rows[k].specialty_2,
         shared_skill_names |-> rows[k].shared_skill_names,
         avg_importance |-> rows[k].avg_importance,
         overlap_percentage |-> rows[k].overlap_percentage,
         total_years_of_experience_group |-> rows[k].total_years_of_experience_group,
         state |-> rows[k].state,
         avg_base_pay |-> rows[k].avg_base_pay[1],
         pay_increase |-> rows[k].avg_base_pay[1] - user_base_pay]]

\* a filter that keeps a pay_increase of 0
positive_or_zero(rows) == SelectSeq(rows, LAMBDA r : r.pay_increase >= 0)

\* merged[merged["pay_increase"] > 0]
positive(rows) == SelectSeq(rows, LAMBDA r : r.pay_increase > 0)

\* the merged frame the two implementations sort: lines 206-219 / 145-158
surviving(overlaps, user_base_pay, years_of_experience_group, state, pay_df) ==
    positive(with_pay_increase(
        dropna(merge_left(overlaps,
                          avg_df_of(years_of_experience_group, state, pay_df))),
        user_base_pay))

\* the empty pieces kept
safe_parse_skills_keep_empty(x) ==
    IF x.type # "str" THEN <<>>
    ELSE LET cleaned == remove(remove(strip(x.chars, {"[", "]"}), "'"), "\"")
         IN IF cleaned = <<>> THEN <<>>
            ELSE LET pieces == split(cleaned, ",")
                 IN [k \in DOMAIN pieces |-> strip(pieces[k], Whitespace)]

\* the double quotes left in
safe_parse_skills_single_quotes(x) ==
    IF x.type # "str" THEN <<>>
    ELSE LET cleaned == remove(strip(x.chars, {"[", "]"}), "'")
         IN IF cleaned = <<>> THEN <<>>
            ELSE LET pieces == split(cleaned, ",")
                     skills == [k \in DOMAIN pieces |-> strip(pieces[k], Whitespace)]
                 IN SelectSeq(skills, LAMBDA skill : skill # <<>>)

\* the pieces between the commas kept as they are, blanks included
safe_parse_skills_unstripped(x) ==
    IF x.type # "str" THEN <<>>
    ELSE LET cleaned == remove(remove(strip(x.chars, {"[", "]"}), "'"), "\"")
         IN IF cleaned = <<>> THEN <<>>
            ELSE SelectSeq(split(cleaned, ","), LAMBDA skill : skill # <<>>)

\* safe_parse_skills(x)
safe_parse_skills(x) ==
    IF x.type # "str" THEN <<>>
    ELSE LET cleaned == remove(remove(strip(x.chars, {"[", "]"}), "'"), "\"")
         IN IF cleaned = <<>> THEN <<>>
            ELSE LET pieces == split(cleaned, ",")
                     skills == [k \in DOMAIN pieces |-> strip(pieces[k], Whitespace)]
                 IN SelectSeq(skills, LAMBDA skill : skill # <<>>)

\* merged["shared_skill_names"].apply(safe_parse_skills)
parse_skills_column(rows) ==
    [k \in DOMAIN rows |->
        [rows[k] EXCEPT !.shared_skill_names = PyList(safe_parse_skills(@))]]

\* ascending=True
place_ascending(sorted, x) ==
    Cardinality({j \in DOMAIN sorted : sorted[j].pay_increase <= x.pay_increase})

\* a sort whose order among equal rows changes from one call to the next
place_by_run(sorted, x) ==
    IF ret = NoRet
    THEN Cardinality({j \in DOMAIN sorted : sorted[j].pay_increase >= x.pay_increase})
    ELSE Cardinality({j \in DOMAIN sorted : sorted[j].pay_increase > x.pay_increase})

\* where a row lands among the rows already placed. The argsort is run on the
\* reversed column and reversed back: the insertion sort numpy uses for a short
\* column keeps rows of equal pay_increase in table order; the SIMD kernel
\* other builds dispatch to is not stable, and equal rows may come out in
\* another order (here: reversed).
place(sorted, x) ==
    IF sortBuild = "insertion"
    THEN Cardinality({j \in DOMAIN sorted : sorted[j].pay_increase >= x.pay_increase})
    ELSE Cardinality({j \in DOMAIN sorted : sorted[j].pay_increase > x.pay_increase})

\* rows.sort_values("pay_increase", ascending=False)
RECURSIVE sort_values(_)
sort_values(rows) ==
    IF rows = <<>> THEN <<>>
    ELSE LET n == Len(rows)
             sorted == sort_values(SubSeq(rows, 1, n - 1))
             k == place(sorted, rows[n])
         IN SubSeq(sorted, 1, k) \o <<rows[n]>> \o SubSeq(sorted, k + 1, n - 1)

\* .head(n)
head(rows, n) == SubSeq(rows, 1, IF Len(rows) < n THEN Len(rows) ELSE n)

\* the sort without the head(5)
top_matches_uncapped(rows) == sort_values(rows)

\* head(5) taken before the sort
top_matches_head_first(rows) == sort_values(head(rows, TopN))

\* merged.sort_values("pay_increase", ascending=False).head(5).copy()
top_matches(rows) == head(sort_values(rows), TopN)

BothTables == {"skills_df", "avg_pay_df"}

\* the emptiness check made before the pay filter instead of after it
service_compute_unchecked(specialty, user_base_pay, years_of_experience_group, state, sdf, pdf) ==
    IF specialty_missing(specialty)
    THEN Return(MissingSpecialty, <<>>, {})
    ELSE LET overlaps == overlaps_of(specialty, sdf)
         IN IF overlaps = <<>>
            THEN Return(NoOverlapData, <<>>, {"skills_df"})
            ELSE LET joined == with_pay_increase(
                                   dropna(merge_left(overlaps,
                                       avg_df_of(years_of_experience_group, state, pdf))),
                                   user_base_pay)
                 IN IF joined = <<>>
                    THEN Return(NoPositiveTransfer, <<>>, BothTables)
                    ELSE Return(NoError,
                                top_matches(parse_skills_column(positive(joined))),
                                BothTables)

\* InsightService.compute_skill_transfer_options
service_compute(specialty, user_base_pay, years_of_experience_group, state, sdf, pdf) ==
    IF specialty_missing(specialty)
    THEN Return(MissingSpecialty, <<>>, {})
    ELSE LET overlaps == overlaps_of(specialty, sdf)
         IN IF overlaps = <<>>
            THEN Return(NoOverlapData, <<>>, {"skills_df"})
            ELSE LET merged == surviving(overlaps, user_base_pay,
                                         years_of_experience_group, state, pdf)
                 IN IF merged = <<>>
                    THEN Return(NoPositiveTransfer, <<>>, BothTables)
                    ELSE Return(NoError,
                                top_matches(parse_skills_column(merged)),
                                BothTables)

----------------------------------------------------------------------------
(* utils/llm_functions.compute_skill_transfer_options *)

Quotes == {"'", "\""}

\* a string literal: a quote, characters without that quote or a backslash,
\* the same quote
is_literal(tok) ==
    /\ Len(tok) >= 2
    /\ tok[1] \in Quotes
    /\ tok[Len(tok)] = tok[1]
    /\ \A i \in 2..(Len(tok) - 1) : tok[i] # tok[1] /\ tok[i] # "\\"

literal_value(tok) == SubSeq(tok, 2, Len(tok) - 1)

Evaluated(v) == [raises |-> FALSE, value |-> v]
EvalError == [raises |-> TRUE, value |-> PyNone]

\* eval(x) for the cells of SkillCell: a list display of string literals
\* (a trailing comma allowed) is that list, a single string literal is that
\* str, and any other text over letters, blanks, commas, quotes and brackets
\* either is no expression (SyntaxError), names an unbound variable
\* (NameError), or evaluates to a value whose join at line 180 raises
\* TypeError: all of them are EvalError here.
py_eval(chars) ==
    LET s == strip(chars, {" ", "\t"})
    IN IF Len(s) >= 2 /\ s[1] = "[" /\ s[Len(s)] = "]"
       THEN LET inner == strip(SubSeq(s, 2, Len(s) - 1), Whitespace)
                pieces == split(inner, ",")
                toks == [k \in DOMAIN pieces |-> strip(pieces[k], Whitespace)]
                items == IF Len(toks) >= 2 /\ toks[Len(toks)] = <<>>
                         THEN SubSeq(toks, 1, Len(toks) - 1)
                         ELSE toks
            IN IF inner = <<>> THEN Evaluated(PyList(<<>>))
               ELSE IF \A k \in DOMAIN items : is_literal(items[k])
               THEN Evaluated(PyList([k \in DOMAIN items |-> literal_value(items[k])]))
               ELSE EvalError
       ELSE IF is_literal(s) THEN Evaluated(PyStr(literal_value(s)))
       ELSE EvalError

\* lambda x: eval(x) if isinstance(x, str) else []
eval_cell(x) ==
    IF x.type = "str" THEN py_eval(x.chars) ELSE Evaluated(PyList(<<>>))

\* merged["shared_skill_names"].apply(lambda x: eval(x) ...), when no eval raises
eval_skills_column(rows) ==
    [k \in DOMAIN rows |->
        [rows[k] EXCEPT !.shared_skill_names = eval_cell(@).value]]

CommaBlank == <<",", " ">>

\* lambda x: ", ".join(x[:2]) if isinstance(x, list) and len(x) >= 2
\*           else ", ".join(x)
top_skills_of(x) ==
    IF x.type = "list"
    THEN join(head(x.items, 2), CommaBlank)
    ELSE join([k \in DOMAIN x.chars |-> <<x.chars[k]>>], CommaBlank)

\* the column selection and top_matches["top_skills"] = ...
with_top_skills(rows) ==
    [k \in DOMAIN rows |->
        [specialty_2 |-> rows[k].specialty_2,
         shared_skill_names |-> rows[k].shared_skill_names,
         avg_importance |-> rows[k].avg_importance,
         overlap_percentage |-> rows[k].overlap_percentage,
         total_years_of_experience_group |-> rows[k].total_years_of_experience_group,
         state |-> rows[k].state,
         avg_base_pay |-> rows[k].avg_base_pay,
         pay_increase |-> rows[k].pay_increase,
         top_skills |-> top_skills_of(rows[k].shared_skill_names)]]

\* compute_skill_transfer_options of utils/llm_functions: no guard on the
\* specialty (None.lower() raises AttributeError once the column has been
\* lowered), and eval in place of safe_parse_skills.
module_compute(specialty, user_base_pay, years_of_experience_group, state, sdf, pdf) ==
    IF specialty = None
    THEN Raise({"skills_df"})
    ELSE LET overlaps == overlaps_of(specialty, sdf)
         IN IF overlaps = <<>>
            THEN Return(NoOverlapData, <<>>, {"skills_df"})
            ELSE LET merged == surviving(overlaps, user_base_pay,
                                         years_of_experience_group, state, pdf)
                 IN IF merged = <<>>
                    THEN Return(NoPositiveTransfer, <<>>, BothTables)
                    ELSE IF \E k \in DOMAIN merged :
                                eval_cell(merged[k].shared_skill_names).raises
                    THEN Raise(BothTables)
                    ELSE Return(NoError,
                                with_top_skills(top_matches(eval_skills_column(merged))),
                                BothTables)

----------------------------------------------------------------------------
(* The reference tables the data layer can hold *)

\* the most overlap rows a table of the model holds
MaxOverlapRows == 6

Digits == <<"1", "2", "3", "4", "5", "6", "7", "8", "9">>

\* the i-th target specialty's name
Target(i) == <<"T", Digits[i]>>

Groups == {"5-10 years", "2-5 years"}
States == {"TX", "CA"}

\* shared_skill_names as the store delivers it: bracketed text, a list, or
\* text that is no Python expression
SkillCell(i) ==
    IF i % 4 = 0
    THEN PyStr(<<"i", "v", ",", " ", "w", "c", "]">>)
    ELSE IF i % 4 = 3
    THEN PyStr(<<"'">>)
    ELSE IF i % 2 = 1
    THEN PyStr(<<"[", "'", "i", "v", "'", ",", " ", "'", "w", "c", "'", "]">>)
    ELSE PyList(<< <<"i", "v">>, <<"w", "c">> >>)

\* who the i-th overlap row is from
FromPatterns == {"upper", "mixed", "other"}

FromName(fp, i) ==
    CASE fp = "upper" -> ICU
      [] fp = "mixed" -> IF i % 2 = 1 THEN ICU ELSE icu
      [] fp = "other" -> IF i % 3 = 1 THEN ICU ELSE IF i % 3 = 2 THEN ER ELSE None

OverlapTable(n, fp) ==
    [i \in 1..n |->
        [specialty_1 |-> FromName(fp, i),
         specialty_2 |-> Target(i),
         shared_skill_names |-> SkillCell(i),
         avg_importance |-> 3,
         overlap_percentage |-> 10 * i]]

\* what the i-th target pays on average in the bracket "5-10 years", "TX"
PayPatterns == {"asc", "desc", "flat", "zig"}

AvgPay(pp, i) ==
    CASE pp = "asc" -> i
      [] pp = "desc" -> MaxOverlapRows + 1 - i
      [] pp = "flat" -> 3
      [] pp = "zig" -> IF i % 2 = 1 THEN 2 ELSE 4

\* which targets have a benchmark in that bracket: all; or every third none
\* and every third one without an average; or none at all
PresencePatterns == {"full", "gaps", "absent"}

PayRow(g, specialty, st, avg) ==
    [total_years_of_experience_group |-> g, specialty |-> specialty,
     state |-> st, avg_base_pay |-> avg]

RECURSIVE BracketRows(_, _, _)
BracketRows(n, pp, pr) ==
    IF n = 0 THEN <<>>
    ELSE (IF pr = "absent" \/ (pr = "gaps" /\ n % 3 = 1) THEN <<>>
          ELSE <<PayRow("5-10 years", Target(n), "TX",
                        IF pr = "gaps" /\ n % 3 = 2 THEN NaN ELSE <<AvgPay(pp, n)>>)>>)
         \o BracketRows(n - 1, pp, pr)

\* rows of the other brackets, and of a job without a specialty
OtherBrackets ==
    <<PayRow("2-5 years", Target(1), "TX", <<9>>),
      PayRow("5-10 years", Target(2), "CA", <<9>>),
      PayRow("5-10 years", None, "TX", <<9>>)>>

\* at most one row per (group, specialty, state), as the GROUP BY yields
PayTable(n, pp, pr) == OtherBrackets \o BracketRows(n, pp, pr)

Tables ==
    {<<OverlapTable(n, fp), PayTable(n, pp, pr)>> :
        <<n, fp, pp, pr>> \in (0..MaxOverlapRows) \X FromPatterns
                               \X PayPatterns \X PresencePatterns}

----------------------------------------------------------------------------
(* The calls *)

QuerySpecialties == {None, Empty, Blank, ICU, icu, ER, ONC}
BasePays == {0, 3}
SortBuilds == {"insertion", "simd"}

\* no session has a call in flight; no text is being parsed
NoSessions == <<>>
NoCell == [stage |-> "none"]

\* no refinement asked for, no password gate shown, no cost tracker built
NoGpt == [stage |-> "none"]
NoAuth == [stage |-> "none"]
NoCost == [stage |-> "none"]

\* the rows of the parsed column written into the overlap rows they came from
tables_after_shared(c, sdf, pdf) ==
    <<[i \in DOMAIN sdf |->
          [sdf[i] EXCEPT !.shared_skill_names = PyList(safe_parse_skills(@))]],
      pdf>>

\* the two input frames as a call leaves them. Every frame the call assigns
\* a column to is its own: overlaps and avg_df are boolean-mask selections
\* (copies), merged is the new frame merge() and dropna() build, and
\* top_matches is an explicit .copy(); nothing is assigned to skills_df or
\* avg_pay_df.
tables_after(c, sdf, pdf) == <<sdf, pdf>>

compute(c, sdf, pdf) ==
    IF c.impl = "service"
    THEN service_compute(c.specialty, c.user_base_pay,
                         c.years_of_experience_group, c.state, sdf, pdf)
    ELSE module_compute(c.specialty, c.user_base_pay,
                        c.years_of_experience_group, c.state, sdf, pdf)

Init ==
    /\ \E t \in Tables : skills_df = t[1] /\ avg_pay_df = t[2]
    /\ sortBuild \in SortBuilds
    /\ call = NoCall
    /\ ret = NoRet
    /\ ret2 = NoRet
    /\ sess = NoSessions
    /\ cell = NoCell
    /\ gpt = NoGpt
    /\ auth = NoAuth
    /\ cost = NoCost

Call(impl) ==
    /\ call = NoCall
    /\ \E specialty \in QuerySpecialties, user_base_pay \in BasePays,
          g \in Groups, st \in States :
          call' = [impl |-> impl, specialty |-> specialty,
                   user_base_pay |-> user_base_pay,
                   years_of_experience_group |-> g, state |-> st]
    /\ ret' = compute(call', skills_df, avg_pay_df)
    /\ ret2' = NoRet
    /\ skills_df' = tables_after(call', skills_df, avg_pay_df)[1]
    /\ avg_pay_df' = tables_after(call', skills_df, avg_pay_df)[2]
    /\ UNCHANGED <<sortBuild, other_vars>>

\* SkillTransferView.render calls the service
ServiceCall == Call("service")

\* the Skill Transfer tab of app.py calls the module-level function
ModuleCall == Call("module")

\* the same call again, on the tables as the first call left them
RepeatCall ==
    /\ call # NoCall
    /\ ret2 = NoRet
    /\ ret2' = compute(call, skills_df, avg_pay_df)
    /\ skills_df' = tables_after(call, skills_df, avg_pay_df)[1]
    /\ avg_pay_df' = tables_after(call, skills_df, avg_pay_df)[2]
    /\ UNCHANGED <<sortBuild, call, ret, other_vars>>

\* the script run ends: its locals are gone
Rerun ==
    /\ call # NoCall
    /\ call' = NoCall
    /\ ret' = NoRet
    /\ ret2' = NoRet
    /\ UNCHANGED <<skills_df, avg_pay_df, sortBuild, other_vars>>

\* load_all_data's cache expires and the next run loads a new snapshot
Refresh ==
    /\ call = NoCall
    /\ \E t \in Tables : skills_df' = t[1] /\ avg_pay_df' = t[2]
    /\ UNCHANGED <<sortBuild, call, ret, ret2, other_vars>>

Next == ServiceCall \/ ModuleCall \/ RepeatCall \/ Rerun \/ Refresh

Spec == Init /\ [][Next]_vars

----------------------------------------------------------------------------
(* What the properties below speak of, read off the tables themselves *)

Returned == call # NoCall /\ ret.status = "return"

\* two strs that differ at most in the case of their letters
SameIgnoringCase(a, b) ==
    /\ a # None
    /\ b # None
    /\ Len(a) = Len(b)
    /\ \A i \in DOMAIN a :
          \/ a[i] = b[i]
          \/ \E k \in DOMAIN UpperChars : {a[i], b[i]} = {UpperChars[k], LowerChars[k]}

\* the overlap rows of the query specialty
Matching == {i \in DOMAIN skills_df :
                SameIgnoringCase(skills_df[i].specialty_1, call.specialty)}

\* the benchmarks of overlap row i's target in the query's bracket
Benchmarks(i) ==
    {j \in DOMAIN avg_pay_df :
        /\ avg_pay_df[j].total_years_of_experience_group = call.years_of_experience_group
        /\ avg_pay_df[j].state = call.state
        /\ avg_pay_df[j].specialty = skills_df[i].specialty_2
        /\ avg_pay_df[j].avg_base_pay # NaN}

PayAt(j) == avg_pay_df[j].avg_base_pay[1]

\* the (overlap row, benchmark) pairs that pay more than the nurse earns
Survivors ==
    UNION {{<<i, j>> : j \in {b \in Benchmarks(i) : PayAt(b) > call.user_base_pay}} :
              i \in Matching}

\* the pairs among S a returned row stands for: an overlap row is known by
\* its overlap_percentage, its benchmark by the target and the bracket
RowOf(S, r) ==
    {s \in S :
        /\ skills_df[s[1]].overlap_percentage = r.overlap_percentage
        /\ skills_df[s[1]].specialty_2 = r.specialty_2
        /\ PayAt(s[2]) = r.avg_base_pay}

----------------------------------------------------------------------------
(* The two callers read the nurse's profile row and decide whether to call
   the engine; the base pay of a profile is a number, NaN (a NULL in the
   float column) or None. *)

PyFloat(x) == [kind |-> "float", value |-> x]
NaNPay == [kind |-> "NaN"]
NonePay == [kind |-> "None"]

UnknownPays == {NaNPay, NonePay}
ProfilePays == {PyFloat(x) : x \in BasePays} \cup UnknownPays

\* the warnings of the two callers, without their leading emoji
MissingProfile == "Missing specialty or pay data for skill transfer analysis"
NoSpecialtyInfo == "No specialty info available for the selected user."
BasePayMissing == "Base pay is missing - cannot compare to national averages."

\* st.warning(...) and no call of the engine
Warned(msg) == [status |-> "warned", err |-> msg, rows |-> <<>>, read |-> {}]

\* not x, for a profile's base pay: None and 0.0 are falsy, NaN is truthy
falsy_pay(pay) ==
    \/ pay.kind = "None"
    \/ pay.kind = "float" /\ pay.value = 0

\* pd.isna(x), for a profile's base pay
isna_pay(pay) == pay.kind \in {"None", "NaN"}

\* SkillTransferView.render: if not current_specialty or not current_pay
render_rejects(specialty, pay) ==
    \/ specialty = None
    \/ specialty = Empty
    \/ falsy_pay(pay)

\* the tab of app.py: the message of its two tests, or "None" when both pass
app_rejects(specialty, pay) ==
    IF specialty = None \/ specialty = Empty THEN NoSpecialtyInfo
    ELSE IF isna_pay(pay) THEN BasePayMissing
    ELSE NoError

\* lines 195-222 / 140-161 with a base pay that is no number. x - NaN is NaN
\* and NaN > 0 is False, so no row passes the pay filter; a float64 column
\* minus None raises TypeError as soon as the column has a row.
unknown_pay_compute(impl, specialty, pay, years_of_experience_group, state, sdf, pdf) ==
    IF impl = "service" /\ specialty_missing(specialty)
    THEN Return(MissingSpecialty, <<>>, {})
    ELSE IF impl = "module" /\ specialty = None
    THEN Raise({"skills_df"})
    ELSE LET overlaps == overlaps_of(specialty, sdf)
         IN IF overlaps = <<>>
            THEN Return(NoOverlapData, <<>>, {"skills_df"})
            ELSE LET joined == dropna(merge_left(overlaps,
                                   avg_df_of(years_of_experience_group, state, pdf)))
                 IN IF pay.kind = "None" /\ joined # <<>>
                    THEN Raise(BothTables)
                    ELSE Return(NoPositiveTransfer, <<>>, BothTables)

\* the engine on a profile's values
profile_compute(c, sdf, pdf) ==
    IF c.user_base_pay.kind = "float"
    THEN compute([c EXCEPT !.user_base_pay = c.user_base_pay.value], sdf, pdf)
    ELSE unknown_pay_compute(c.impl, c.specialty, c.user_base_pay,
                             c.years_of_experience_group, c.state, sdf, pdf)

ProfileCall(impl, via, specialty, pay, g, st) ==
    [impl |-> impl, via |-> via, specialty |-> specialty, user_base_pay |-> pay,
     years_of_experience_group |-> g, state |-> st]

\* SkillTransferView.render on a profile row
RenderProfile ==
    /\ call = NoCall
    /\ \E specialty \in QuerySpecialties, pay \in ProfilePays,
          g \in Groups, st \in States :
          /\ call' = ProfileCall("service", "render", specialty, pay, g, st)
          /\ ret' = IF render_rejects(specialty, pay)
                    THEN Warned(MissingProfile)
                    ELSE profile_compute(call', skills_df, avg_pay_df)
    /\ ret2' = NoRet
    /\ UNCHANGED <<skills_df, avg_pay_df, sortBuild, other_vars>>

\* the Skill Transfer tab of app.py on a profile row, the button pressed
AppProfile ==
    /\ call = NoCall
    /\ \E specialty \in QuerySpecialties, pay \in ProfilePays,
          g \in Groups, st \in States :
          /\ call' = ProfileCall("module", "app", specialty, pay, g, st)
          /\ ret' = IF app_rejects(specialty, pay) # NoError
                    THEN Warned(app_rejects(specialty, pay))
                    ELSE profile_compute(call', skills_df, avg_pay_df)
    /\ ret2' = NoRet
    /\ UNCHANGED <<skills_df, avg_pay_df, sortBuild, other_vars>>

\* the engine called with a base pay that is not known
UnknownPayCall(impl) ==
    /\ call = NoCall
    /\ \E specialty \in QuerySpecialties, pay \in UnknownPays,
          g \in Groups, st \in States :
          /\ call' = ProfileCall(impl, "direct", specialty, pay, g, st)
          /\ ret' = profile_compute(call', skills_df, avg_pay_df)
    /\ ret2' = NoRet
    /\ UNCHANGED <<skills_df, avg_pay_df, sortBuild, other_vars>>

ProfileNext ==
    \/ RenderProfile
    \/ AppProfile
    \/ UnknownPayCall("service")
    \/ UnknownPayCall("module")
    \/ Rerun

SpecProfile == Init /\ [][ProfileNext]_vars

----------------------------------------------------------------------------
(* Several UI sessions call the service while the data layer swaps the
   snapshot. A call holds the two frames it was passed; its steps interleave
   with the other sessions' steps and with the swaps. *)

MaxSessions == 2

Sessions == 1..MaxSessions

\* the snapshots the data layer serves, one after another
Snapshots ==
    {<<OverlapTable(3, "upper"), PayTable(3, "asc", "full")>>,
     <<OverlapTable(3, "other"), PayTable(3, "desc", "full")>>,
     <<OverlapTable(2, "mixed"), PayTable(2, "zig", "gaps")>>}

SessionSpecialties == {Empty, ICU, ER}

Idle == [pc |-> "idle"]

\* the pay table of the data layer's current snapshot, whoever asks
pay_table_current(s) == avg_pay_df

\* the avg_pay_df a session's call reads: the frame it was passed
pay_table_of(s) == sess[s].snap[2]

\* lines 206-247: the join, the pay filter, the parse and the sort, on the
\* overlaps the call has selected
service_finish(overlaps, user_base_pay, years_of_experience_group, state, pdf) ==
    LET merged == surviving(overlaps, user_base_pay,
                            years_of_experience_group, state, pdf)
    IN IF merged = <<>>
       THEN Return(NoPositiveTransfer, <<>>, BothTables)
       ELSE Return(NoError, top_matches(parse_skills_column(merged)), BothTables)

SessionsInit ==
    /\ \E t \in Snapshots : skills_df = t[1] /\ avg_pay_df = t[2]
    /\ sortBuild \in SortBuilds
    /\ call = NoCall
    /\ ret = NoRet
    /\ ret2 = NoRet
    /\ sess = [s \in Sessions |-> Idle]
    /\ cell = NoCell
    /\ gpt = NoGpt
    /\ auth = NoAuth
    /\ cost = NoCost

\* a session's script run loads the snapshot and calls the service with it:
\* the guard and the overlap selection, lines 197-204
BeginCall(s) ==
    /\ sess[s].pc = "idle"
    /\ \E specialty \in SessionSpecialties, user_base_pay \in BasePays :
          LET args == [impl |-> "service", specialty |-> specialty,
                       user_base_pay |-> user_base_pay,
                       years_of_experience_group |-> "5-10 years",
                       state |-> "TX"]
              snap == <<skills_df, avg_pay_df>>
              overlaps == overlaps_of(specialty, snap[1])
          IN sess' = [sess EXCEPT ![s] =
                IF specialty_missing(specialty)
                THEN [pc |-> "done", args |-> args, snap |-> snap,
                      result |-> Return(MissingSpecialty, <<>>, {})]
                ELSE IF overlaps = <<>>
                THEN [pc |-> "done", args |-> args, snap |-> snap,
                      result |-> Return(NoOverlapData, <<>>, {"skills_df"})]
                ELSE [pc |-> "filtered", args |-> args, snap |-> snap,
                      overlaps |-> overlaps]]
    /\ UNCHANGED <<skills_df, avg_pay_df, sortBuild, call, ret, ret2, cell, app_vars>>

\* the call goes on from its overlaps: lines 206-247
FinishCall(s) ==
    /\ sess[s].pc = "filtered"
    /\ sess' = [sess EXCEPT ![s] =
          [pc |-> "done", args |-> sess[s].args, snap |-> sess[s].snap,
           result |-> service_finish(sess[s].overlaps,
                                     sess[s].args.user_base_pay,
                                     sess[s].args.years_of_experience_group,
                                     sess[s].args.state,
                                     pay_table_of(s))]]
    /\ UNCHANGED <<skills_df, avg_pay_df, sortBuild, call, ret, ret2, cell, app_vars>>

\* the script run ends
EndRun(s) ==
    /\ sess[s].pc = "done"
    /\ sess' = [sess EXCEPT ![s] = Idle]
    /\ UNCHANGED <<skills_df, avg_pay_df, sortBuild, call, ret, ret2, cell, app_vars>>

\* the cache expires and the data layer serves another snapshot, at any time
SwapSnapshot ==
    /\ \E t \in Snapshots :
          /\ <<skills_df, avg_pay_df>> # t
          /\ skills_df' = t[1]
          /\ avg_pay_df' = t[2]
    /\ UNCHANGED <<sortBuild, call, ret, ret2, sess, cell, app_vars>>

SessionsNext ==
    \/ \E s \in Sessions : BeginCall(s)
    \/ \E s \in Sessions : FinishCall(s)
    \/ \E s \in Sessions : EndRun(s)
    \/ SwapSnapshot

SpecSessions == SessionsInit /\ [][SessionsNext]_vars

----------------------------------------------------------------------------
(* The refinement of the returned candidates into bullets by the text
   generation service: refine_skill_transfer_bullets, called by the tab of
   app.py, and InsightService.generate_skill_transfer_suggestions, called by
   SkillTransferView.render. *)

PyTuple(items) == [type |-> "tuple", items |-> items]

\* what client.chat.completions.create does: a reply with a content, or an
\* exception
Reply(content) == [ok |-> TRUE, content |-> content]
Failure(e) == [ok |-> FALSE, error |-> e]

GptReplies ==
    {Reply(<<"a", "\n", "b">>), Reply(<<" ", "a", " ", "\n", "\n", "b", "\n">>),
     Reply(<<>>), Failure("timeout")}

\* one raw bullet per returned row
raw_bullets_of(rows) ==
    [k \in DOMAIN rows |-> <<rows[k].specialty_2, rows[k].pay_increase>>]

\* the f-string prompt: the specialty and the block of raw bullets
prompt_of(specialty, raw_bullets) ==
    [specialty |-> specialty, bullet_block |-> raw_bullets]

\* [line.strip() for line in content.strip().split("\n") if line.strip()]
bullet_lines(content) ==
    LET lines == split(strip(content, Whitespace), "\n")
        stripped == [k \in DOMAIN lines |-> strip(lines[k], Whitespace)]
    IN SelectSeq(stripped, LAMBDA line : line # <<>>)

\* refine_skill_transfer_bullets: the lines and the prompt, or on an
\* exception a list of one message
refine_skill_transfer_bullets(specialty, raw_bullets, reply) ==
    IF reply.ok
    THEN PyTuple(<<PyList(bullet_lines(reply.content)),
                   prompt_of(specialty, raw_bullets)>>)
    ELSE PyList(<< <<"GPT Error: ", reply.error>> >>)

\* InsightService.generate_skill_transfer_suggestions with the default
\* prompts: the lines or one message, and the prompt in both cases
generate_skill_transfer_suggestions(specialty, raw_bullets, reply) ==
    IF reply.ok
    THEN PyTuple(<<PyList(bullet_lines(reply.content)),
                   prompt_of(specialty, raw_bullets)>>)
    ELSE PyTuple(<<PyList(<< <<"Error: ", reply.error>> >>),
                   prompt_of(specialty, raw_bullets)>>)

\* a, b = value: ValueError unless the value has exactly two items
unpack_two(impl, reply, value) ==
    IF Len(value.items) = 2
    THEN [stage |-> "shown", impl |-> impl, reply |-> reply, value |-> value,
          bullets |-> value.items[1].items, prompt |-> value.items[2]]
    ELSE [stage |-> "raised", impl |-> impl, reply |-> reply, value |-> value,
          bullets |-> <<>>, prompt |-> "ValueError"]

\* app.py 194-211: the raw bullets, the refinement, the unpacking
RefineBullets ==
    /\ call # NoCall
    /\ call.impl = "module"
    /\ ret.status = "return"
    /\ ret.err = NoError
    /\ gpt = NoGpt
    /\ \E reply \in GptReplies :
          gpt' = unpack_two("module", reply,
                    refine_skill_transfer_bullets(call.specialty,
                                                  raw_bullets_of(ret.rows), reply))
    /\ UNCHANGED <<skills_df, avg_pay_df, sortBuild, call, ret, ret2, sess, cell, auth, cost>>

\* ui/insights.py 281-301: the raw bullets, the generation, the unpacking
GenerateSuggestions ==
    /\ call # NoCall
    /\ call.impl = "service"
    /\ ret.status = "return"
    /\ ret.err = NoError
    /\ gpt = NoGpt
    /\ \E reply \in GptReplies :
          gpt' = unpack_two("service", reply,
                    generate_skill_transfer_suggestions(call.specialty,
                                                        raw_bullets_of(ret.rows), reply))
    /\ UNCHANGED <<skills_df, avg_pay_df, sortBuild, call, ret, ret2, sess, cell, auth, cost>>

\* the next script run starts from nothing
TabRerun ==
    /\ call # NoCall
    /\ call' = NoCall
    /\ ret' = NoRet
    /\ ret2' = NoRet
    /\ gpt' = NoGpt
    /\ UNCHANGED <<skills_df, avg_pay_df, sortBuild, sess, cell, auth, cost>>

TabNext ==
    \/ ServiceCall
    \/ ModuleCall
    \/ RefineBullets
    \/ GenerateSuggestions
    \/ TabRerun

SpecTab == Init /\ [][TabNext]_vars

----------------------------------------------------------------------------
(* The password gate of auth.py. st.session_state holds the text of the
   password widget under "password" and the verdict under
   "password_correct"; a key that is not in the session state is "absent".
   The record auth also keeps what the last run of check_password returned
   ("pending" while a rerun is due), whether it showed the error, and what
   has happened in the session: the last entry and the verdict on it,
   whether a logout came after it, and how many logouts there were. *)

MaxLogouts == 2

\* the texts a user types; "" is the widget's value before any typing
Passwords == {"", "a", "b", "c", "d"}

\* hashlib.sha256(p.encode()).hexdigest(): different for different texts
sha256(p) == <<"sha256", p>>

\* the literal of line 14: the hash of one text, here "a"
HardCodedHash == sha256("a")

\* st.secrets.get("APP_PASSWORD_HASH"): the hash of a password, or None
Secrets == {sha256(p) : p \in Passwords \ {""}} \cup {None}

\* the hash the entry is compared with: line 13 reads the secret and line 14
\* overwrites it with the literal
correct_password_hash(secret) == HardCodedHash

\* password_entered, with the widget's text p in the session state
password_entered(state, p) ==
    IF sha256(p) = correct_password_hash(state.secret)
    THEN [state EXCEPT !.password_correct = "True", !.password = "absent"]
    ELSE [state EXCEPT !.password_correct = "False", !.password = p]

\* check_password: True at once when the verdict is True; else the widget is
\* shown (its key enters the session state), the error after a wrong entry,
\* and False
check_password(state) ==
    IF state.password_correct = "True"
    THEN [state EXCEPT !.returned = "True", !.error_shown = FALSE]
    ELSE [state EXCEPT !.returned = "False",
                       !.password = IF @ = "absent" THEN "" ELSE @,
                       !.error_shown = (state.password_correct = "False")]

\* a logout that leaves the verdict in place
logout_keeps_verdict(state) == state

\* logout: the verdict is deleted
logout(state) == [state EXCEPT !.password_correct = "absent"]

AuthInit ==
    /\ skills_df = <<>>
    /\ avg_pay_df = <<>>
    /\ sortBuild = "insertion"
    /\ call = NoCall
    /\ ret = NoRet
    /\ ret2 = NoRet
    /\ sess = NoSessions
    /\ cell = NoCell
    /\ gpt = NoGpt
    /\ cost = NoCost
    /\ \E secret \in Secrets :
          auth = [stage |-> "gate", secret |-> secret,
                  password_correct |-> "absent", password |-> "absent",
                  returned |-> "pending", error_shown |-> FALSE,
                  last |-> "none", entry |-> "", logout_since |-> FALSE,
                  logouts |-> 0]

\* the user changes the text of the widget: the callback runs, a rerun is due
PasswordEntered ==
    /\ auth.returned = "False"
    /\ \E p \in Passwords \ {auth.password} :
          auth' = [password_entered(auth, p) EXCEPT
                      !.returned = "pending",
                      !.entry = p,
                      !.last = IF sha256(p) = HardCodedHash THEN "ok" ELSE "wrong",
                      !.logout_since = IF sha256(p) = HardCodedHash THEN FALSE ELSE @]
    /\ UNCHANGED <<skills_df, avg_pay_df, sortBuild, call, ret, ret2, sess, cell, gpt, cost>>

\* a script run reaches the gate
CheckPassword ==
    /\ auth' = check_password(auth)
    /\ UNCHANGED <<skills_df, avg_pay_df, sortBuild, call, ret, ret2, sess, cell, gpt, cost>>

\* logout(), and the st.rerun() it ends with is due
Logout ==
    /\ auth.returned # "pending"
    /\ auth.logouts < MaxLogouts
    /\ auth' = [logout(auth) EXCEPT !.returned = "pending", !.logout_since = TRUE,
                                    !.logouts = @ + 1]
    /\ UNCHANGED <<skills_df, avg_pay_df, sortBuild, call, ret, ret2, sess, cell, gpt, cost>>

AuthNext == PasswordEntered \/ CheckPassword \/ Logout

SpecAuth == AuthInit /\ [][AuthNext]_vars

----------------------------------------------------------------------------
(* utils/cost_calculator.CostTracker. The tracker lives in
   st.session_state.cost_tracker; calls_by_type is a dict, kept here as the
   sequence of its entries in insertion order. Costs are floats: each
   addition rounds its result to the nearest float, ties to even. The model
   keeps MantissaBits bits of mantissa and counts costs in whole units, so
   that sums of a few costs already round, as sums of dollar amounts such as
   0.1 + 0.2 + 0.3 do in a double. The record cost also keeps the calls
   added since the last reset and the number of CostTracker objects built. *)

MaxCalls == 3
MaxTrackers == 2

MantissaBits == 3

InsightTypes == {"summary", "skill"}
Costs == {1, 2, 7}

\* the float nearest to the real number n, ties to the even mantissa
fl(n) ==
    IF n < 2 ^ MantissaBits THEN n
    ELSE LET e == CHOOSE x \in 1..8 :
                     /\ n \div (2 ^ x) < 2 ^ MantissaBits
                     /\ n \div (2 ^ (x - 1)) >= 2 ^ MantissaBits
             q == n \div (2 ^ e)
             r == n % (2 ^ e)
         IN IF 2 * r > 2 ^ e \/ (2 * r = 2 ^ e /\ q % 2 = 1)
            THEN (q + 1) * 2 ^ e
            ELSE q * 2 ^ e

\* {'total_calls': 0, 'total_cost': 0.0, 'calls_by_type': {}}
EmptyTracker == [total_calls |-> 0, total_cost |-> 0, calls_by_type |-> <<>>]

\* where insight_type is in calls_by_type, or 0
index_of(by_type, insight_type) ==
    IF \E k \in DOMAIN by_type : by_type[k].type = insight_type
    THEN CHOOSE k \in DOMAIN by_type : by_type[k].type = insight_type
    ELSE 0

\* an add_call that forgets the total count
add_call_uncounted(tracker, insight_type, c) ==
    LET by_type == IF index_of(tracker.calls_by_type, insight_type) = 0
                   THEN Append(tracker.calls_by_type,
                               [type |-> insight_type, count |-> 0, cost |-> 0])
                   ELSE tracker.calls_by_type
        k == index_of(by_type, insight_type)
    IN [total_calls |-> tracker.total_calls,
        total_cost |-> fl(tracker.total_cost + c),
        calls_by_type |-> [by_type EXCEPT ![k] =
            [type |-> insight_type, count |-> @.count + 1, cost |-> fl(@.cost + c)]]]

\* CostTracker.add_call(insight_type, cost)
add_call(tracker, insight_type, c) ==
    LET by_type == IF index_of(tracker.calls_by_type, insight_type) = 0
                   THEN Append(tracker.calls_by_type,
                               [type |-> insight_type, count |-> 0, cost |-> 0])
                   ELSE tracker.calls_by_type
        k == index_of(by_type, insight_type)
    IN [total_calls |-> tracker.total_calls + 1,
        total_cost |-> fl(tracker.total_cost + c),
        calls_by_type |-> [by_type EXCEPT ![k] =
            [type |-> insight_type, count |-> @.count + 1, cost |-> fl(@.cost + c)]]]

CostInit ==
    /\ skills_df = <<>>
    /\ avg_pay_df = <<>>
    /\ sortBuild = "insertion"
    /\ call = NoCall
    /\ ret = NoRet
    /\ ret2 = NoRet
    /\ sess = NoSessions
    /\ cell = NoCell
    /\ gpt = NoGpt
    /\ auth = NoAuth
    /\ cost = NoCost

\* CostTracker(): the session's tracker is made only when there is none
NewTracker ==
    /\ IF cost = NoCost THEN TRUE ELSE cost.objects < MaxTrackers
    /\ cost' = IF cost = NoCost
               THEN [stage |-> "live", tracker |-> EmptyTracker, log |-> <<>>,
                     objects |-> 1, last |-> "init"]
               ELSE [cost EXCEPT !.objects = @ + 1, !.last = "init"]
    /\ UNCHANGED <<skills_df, avg_pay_df, sortBuild, call, ret, ret2, sess, cell, gpt, auth>>

\* tracker.add_call(insight_type, cost) on any of the objects
AddCall ==
    /\ cost # NoCost
    /\ Len(cost.log) < MaxCalls
    /\ \E insight_type \in InsightTypes, c \in Costs :
          cost' = [cost EXCEPT !.tracker = add_call(@, insight_type, c),
                               !.log = Append(@, <<insight_type, c>>),
                               !.last = "add_call"]
    /\ UNCHANGED <<skills_df, avg_pay_df, sortBuild, call, ret, ret2, sess, cell, gpt, auth>>

\* tracker.reset()
ResetTracker ==
    /\ cost # NoCost
    /\ cost' = [cost EXCEPT !.tracker = EmptyTracker, !.log = <<>>, !.last = "reset"]
    /\ UNCHANGED <<skills_df, avg_pay_df, sortBuild, call, ret, ret2, sess, cell, gpt, auth>>

CostNext == NewTracker \/ AddCall \/ ResetTracker

SpecCost == CostInit /\ [][CostNext]_vars

----------------------------------------------------------------------------
(* Overlap tables that hold a pair of a specialty with itself, or pairs to
   one target from two specialties whose names differ only in letter case:
   the query of cache_functions.skills_overlap selects every row of
   specialty_skill_overlap and the names come from a join on ids. *)

MaxPairRows == 3

TargetPatterns == {"distinct", "self", "same"}

\* the target of row i: its own target; or the nurse's specialty in row 1;
\* or one target for the first two rows
PairTarget(tp, i) ==
    CASE tp = "distinct" -> Target(i)
      [] tp = "self" -> IF i = 1 THEN ICU ELSE Target(i)
      [] tp = "same" -> IF i <= 2 THEN Target(1) ELSE Target(i)

PairOverlapTable(n, fp, tp) ==
    [i \in 1..n |->
        [specialty_1 |-> FromName(fp, i),
         specialty_2 |-> PairTarget(tp, i),
         shared_skill_names |-> SkillCell(1),
         avg_importance |-> 3,
         overlap_percentage |-> 10 * i]]

\* one record per (group, specialty, state): the nurse's own specialty pays
\* 4 on average in the bracket, the i-th target i + 1
PairPayTable(n) ==
    <<PayRow("5-10 years", ICU, "TX", <<4>>)>>
    \o [i \in 1..n |-> PayRow("5-10 years", Target(i), "TX", <<i + 1>>)]

\* at most one row per (specialty_1, specialty_2): rows to one target come
\* from names that differ in case
PairTables ==
    {<<PairOverlapTable(n, fp, tp), PairPayTable(n)>> :
        <<n, fp, tp>> \in {x \in (1..MaxPairRows) \X {"upper", "mixed"} \X TargetPatterns :
                              x[3] = "same" => x[2] = "mixed"}}

PairsInit ==
    /\ \E t \in PairTables : skills_df = t[1] /\ avg_pay_df = t[2]
    /\ sortBuild \in SortBuilds
    /\ call = NoCall
    /\ ret = NoRet
    /\ ret2 = NoRet
    /\ sess = NoSessions
    /\ cell = NoCell
    /\ gpt = NoGpt
    /\ auth = NoAuth
    /\ cost = NoCost

PairsNext == ServiceCall \/ ModuleCall \/ Rerun

SpecPairs == PairsInit /\ [][PairsNext]_vars

----------------------------------------------------------------------------
(* safe_parse_skills on the texts that encode a list of names *)

MaxNameLen == 3
MaxNames == 2

\* the characters of a skill name: a letter and the blank
NameAlphabet == {"a", " "}

\* the names of at most MaxNameLen characters, the empty name included
Names == UNION {[1..n -> NameAlphabet] : n \in 0..MaxNameLen}

\* the lists of at most MaxNames names
NameLists == UNION {[1..n -> Names] : n \in 0..MaxNames}

\* ", " as str(list) writes it, or "," alone
Separators == {<<",", " ">>, <<",">>}

\* the bracketed text of the quoted names: "['IV therapy', 'wound care']"
Encode(names, q, sep) ==
    <<"[">> \o join([k \in DOMAIN names |-> <<q>> \o names[k] \o <<q>>], sep)
           \o <<"]">>

\* a shared_skill_names text reaches safe_parse_skills
ParseInit ==
    /\ skills_df = <<>>
    /\ avg_pay_df = <<>>
    /\ sortBuild = "insertion"
    /\ call = NoCall
    /\ ret = NoRet
    /\ ret2 = NoRet
    /\ sess = NoSessions
    /\ gpt = NoGpt
    /\ auth = NoAuth
    /\ cost = NoCost
    /\ \E names \in NameLists, q \in Quotes, sep \in Separators :
          cell = [stage |-> "text", names |-> names, quote |-> q,
                  text |-> PyStr(Encode(names, q, sep))]

\* merged["shared_skill_names"].apply(safe_parse_skills), one cell of it
ParseSkills ==
    /\ cell.stage = "text"
    /\ cell' = [stage |-> "parsed", names |-> cell.names, quote |-> cell.quote,
                text |-> cell.text, skills |-> safe_parse_skills(cell.text)]
    /\ UNCHANGED <<skills_df, avg_pay_df, sortBuild, call, ret, ret2, sess, app_vars>>

ParseNext == ParseSkills

SpecParse == ParseInit /\ [][ParseNext]_vars

MaxTextLen == 4

\* the characters a shared_skill_names text is made of
TextAlphabet == {"a", " ", ",", "'", "\"", "[", "]"}

\* every text of at most MaxTextLen characters
Texts == UNION {[1..n -> TextAlphabet] : n \in 0..MaxTextLen}

\* the values a shared_skill_names cell can hold: any text, a list, NULL
CellValues ==
    {PyStr(t) : t \in Texts} \cup {PyList(<< <<"a">> >>), PyList(<<>>), PyNone}

\* any value of the column reaches safe_parse_skills
TextInit ==
    /\ skills_df = <<>>
    /\ avg_pay_df = <<>>
    /\ sortBuild = "insertion"
    /\ call = NoCall
    /\ ret = NoRet
    /\ ret2 = NoRet
    /\ sess = NoSessions
    /\ gpt = NoGpt
    /\ auth = NoAuth
    /\ cost = NoCost
    /\ \E v \in CellValues :
          cell = [stage |-> "text", names |-> <<>>, quote |-> "'", text |-> v]

SpecTexts == TextInit /\ [][ParseNext]_vars

----------------------------------------------------------------------------
(* Properties *)

\* C1: every returned candidate has pay_increase > 0, and no target whose
\* benchmark average in the query's bracket is equal to or below the base pay
\* is returned.
C1_PayIncreasePositive ==
    call # NoCall =>
        \A k \in DOMAIN ret.rows :
            /\ ret.rows[k].pay_increase > 0
            /\ \A j \in DOMAIN avg_pay_df :
                  (/\ avg_pay_df[j].total_years_of_experience_group
                         = call.years_of_experience_group
                   /\ avg_pay_df[j].state = call.state
                   /\ avg_pay_df[j].specialty = ret.rows[k].specialty_2
                   /\ avg_pay_df[j].avg_base_pay # NaN)
                  => PayAt(j) > call.user_base_pay

\* a call that returns candidates while a target of the nurse's specialty
\* pays exactly the base pay
C1_Witness ==
    /\ Returned
    /\ ret.rows # <<>>
    /\ \E i \in Matching : \E j \in Benchmarks(i) : PayAt(j) = call.user_base_pay

\* C2: the returned list never has more than 5 candidates.
C2_AtMostFive == call # NoCall => Len(ret.rows) <= 5

\* more than 5 candidates survive and the call returns 5
C2_Witness ==
    /\ Returned
    /\ Cardinality(Survivors) > 5
    /\ Len(ret.rows) = 5

\* C3: the returned list is non-increasing in pay_increase.
C3_NonIncreasing ==
    call # NoCall =>
        \A k \in 1..(Len(ret.rows) - 1) :
            ret.rows[k].pay_increase >= ret.rows[k + 1].pay_increase

\* the table lists a lower-paying target before a higher-paying one, and
\* both are returned
C3_Witness ==
    /\ Returned
    /\ \E a, b \in DOMAIN ret.rows :
          /\ a < b
          /\ ret.rows[a].pay_increase > ret.rows[b].pay_increase
          /\ ret.rows[a].overlap_percentage > ret.rows[b].overlap_percentage

\* C4: the returned list is the top 5 of the surviving candidates: each
\* returned row is a survivor, no survivor is returned twice, a survivor left
\* out pays no more than any returned one, and 5 or fewer survivors are all
\* returned.
C4_TopFiveOfSurvivors ==
    Returned =>
        LET S == Survivors
            R == ret.rows
            of == [k \in DOMAIN R |-> RowOf(S, R[k])]
            out == S \ UNION {of[k] : k \in DOMAIN R}
        IN /\ \A k \in DOMAIN R :
                 /\ Cardinality(of[k]) = 1
                 /\ R[k].pay_increase = R[k].avg_base_pay - call.user_base_pay
           /\ \A a, b \in DOMAIN R : of[a] = of[b] => a = b
           /\ \A s \in out : \A k \in DOMAIN R : PayAt(s[2]) <= R[k].avg_base_pay
           /\ Cardinality(S) <= 5 => Len(R) = Cardinality(S)
           /\ Cardinality(S) > 5 => Len(R) = 5

\* more than 5 survive, and the best-paying one is past the fifth row of the
\* overlap table
C4_Witness ==
    /\ Returned
    /\ LET S == Survivors
       IN /\ Cardinality(S) > 5
          /\ \E s \in S :
                /\ \A t \in S : PayAt(t[2]) <= PayAt(s[2])
                /\ Cardinality({t \in S : t[1] < s[1]}) >= 5
                /\ \E k \in DOMAIN ret.rows : s \in RowOf(S, ret.rows[k])

Outcome(r) ==
    <<r.status, r.err,
      {<<r.rows[k].specialty_2, r.rows[k].pay_increase,
         r.rows[k].avg_base_pay, r.rows[k].overlap_percentage,
         r.rows[k].shared_skill_names>> : k \in DOMAIN r.rows}>>

\* C6: two query specialties that differ only in letter case get the same
\* reason and the same candidate set.
C6_CaseInsensitive ==
    call # NoCall =>
        \A s \in QuerySpecialties :
            SameIgnoringCase(s, call.specialty) =>
                Outcome(compute([call EXCEPT !.specialty = s],
                                skills_df, avg_pay_df)) = Outcome(ret)

\* the query is lower case, every overlap row of the specialty is upper
\* case, and candidates are returned
C6_Witness ==
    /\ Returned
    /\ call.specialty = icu
    /\ ret.rows # <<>>
    /\ \A i \in Matching : skills_df[i].specialty_1 = ICU

\* C7: a null or empty specialty gets the missing-specialty reason and an
\* empty result, whatever the tables hold and before either table is read.
C7_MissingSpecialty ==
    (call # NoCall /\ call.impl = "service"
       /\ (call.specialty = None \/ call.specialty = Empty))
    => ret = Return(MissingSpecialty, <<>>, {})

\* the empty specialty, on tables that hold overlap rows and benchmarks of
\* the query's bracket
C7_Witness ==
    /\ call # NoCall
    /\ call.impl = "service"
    /\ call.specialty = Empty
    /\ ret.err = MissingSpecialty
    /\ skills_df # <<>>
    /\ \E i \in DOMAIN skills_df : Benchmarks(i) # {}

\* C8: a specialty of whitespace only gets the missing-specialty reason.
C8_BlankIsMissing ==
    (call # NoCall /\ call.impl = "service" /\ call.specialty = Blank)
    => ret.err = MissingSpecialty

\* C9: a non-empty specialty that no overlap row is from gets the
\* no-overlap reason and an empty result, and the pay table is not read.
C9_NoOverlapData ==
    (call # NoCall /\ call.specialty # None /\ call.specialty # Empty
       /\ Matching = {})
    => ret = Return(NoOverlapData, <<>>, {"skills_df"})

\* a specialty the table has no row from, while the table has rows whose
\* targets pay more than the base pay in the query's bracket
C9_Witness ==
    /\ Returned
    /\ call.specialty = ONC
    /\ ret.err = NoOverlapData
    /\ \E i \in DOMAIN skills_df :
          \E j \in Benchmarks(i) : PayAt(j) > call.user_base_pay

\* C10: overlap rows of the specialty exist but no candidate survives the
\* join and the pay filter: the no-positive-transfer reason, an empty result,
\* and a reason that is not the no-overlap one.
C10_NoPositiveTransfer ==
    (call # NoCall /\ Matching # {} /\ Survivors = {})
    => /\ ret = Return(NoPositiveTransfer, <<>>, BothTables)
       /\ ret.err # NoOverlapData

\* the targets of the specialty have benchmarks in the query's bracket and
\* none pays more than the base pay
C10_Witness ==
    /\ Returned
    /\ ret.err = NoPositiveTransfer
    /\ Matching # {}
    /\ \A i \in Matching : Benchmarks(i) # {}

\* C11: the service, given a non-empty specialty string and a numeric base
\* pay, returns a (reason, list) pair and never raises; the reason is null
\* exactly when the list holds at least one candidate.
C11_ReasonIffEmpty ==
    (call # NoCall /\ call.impl = "service"
       /\ call.specialty # None /\ call.specialty # Empty)
    => /\ ret.status = "return"
       /\ (ret.err = NoError) <=> (ret.rows # <<>>)
       /\ ret.err \in {NoError, NoOverlapData, NoPositiveTransfer}

\* the service returns candidates with a null reason although one of them
\* comes with a skills text that is no list
C11_Witness ==
    /\ Returned
    /\ call.impl = "service"
    /\ ret.err = NoError
    /\ \E k \in DOMAIN ret.rows :
          \E i \in Matching :
             /\ skills_df[i].overlap_percentage = ret.rows[k].overlap_percentage
             /\ skills_df[i].shared_skill_names = SkillCell(4)

\* C12: a returned candidate's pay_increase is avg_base_pay - basePay, the
\* avg_base_pay being that of the pay record of the target in exactly the
\* query's experience group and state; no record of another bracket or
\* region stands in.
C12_ExactBracket ==
    Returned =>
        \A k \in DOMAIN ret.rows :
            LET r == ret.rows[k]
            IN /\ r.total_years_of_experience_group = call.years_of_experience_group
               /\ r.state = call.state
               /\ r.pay_increase = r.avg_base_pay - call.user_base_pay
               /\ \E j \in DOMAIN avg_pay_df :
                     /\ avg_pay_df[j].specialty = r.specialty_2
                     /\ avg_pay_df[j].total_years_of_experience_group
                           = call.years_of_experience_group
                     /\ avg_pay_df[j].state = call.state
                     /\ avg_pay_df[j].avg_base_pay = <<r.avg_base_pay>>

\* a returned target has a record of another bracket with another average,
\* and a target of the specialty whose only records are of other brackets
\* is not returned
C12_Witness ==
    /\ Returned
    /\ \E k \in DOMAIN ret.rows :
          \E j \in DOMAIN avg_pay_df :
             /\ avg_pay_df[j].specialty = ret.rows[k].specialty_2
             /\ avg_pay_df[j].total_years_of_experience_group
                   # call.years_of_experience_group
             /\ avg_pay_df[j].avg_base_pay # NaN
             /\ avg_pay_df[j].avg_base_pay # <<ret.rows[k].avg_base_pay>>
    /\ \E i \in Matching :
          /\ Benchmarks(i) = {}
          /\ \E j \in DOMAIN avg_pay_df :
                /\ avg_pay_df[j].specialty = skills_df[i].specialty_2
                /\ avg_pay_df[j].avg_base_pay # NaN
                /\ avg_pay_df[j].avg_base_pay[1] > call.user_base_pay
          /\ \A k \in DOMAIN ret.rows :
                ret.rows[k].specialty_2 # skills_df[i].specialty_2

\* the overlap rows of the query specialty whose target has no pay record
\* in the query's bracket
Unrecorded ==
    {i \in Matching :
        \A j \in DOMAIN avg_pay_df :
            ~ /\ avg_pay_df[j].specialty = skills_df[i].specialty_2
              /\ avg_pay_df[j].total_years_of_experience_group
                    = call.years_of_experience_group
              /\ avg_pay_df[j].state = call.state}

\* the overlap rows of the query specialty whose target's pay record in the
\* query's bracket has a null avg_base_pay
NullAverage == {i \in Matching \ Unrecorded : Benchmarks(i) = {}}

\* C13: an overlap row whose target has no pay record in the query's bracket,
\* or one with a null avg_base_pay, is never in the result and raises no
\* error: the service returns, and returns the surviving candidates with a
\* null reason when there are any.
C13_NoBenchmarkDropped ==
    (call # NoCall /\ (Unrecorded \cup NullAverage) # {})
    => /\ \A i \in Unrecorded \cup NullAverage :
             \A k \in DOMAIN ret.rows :
                ret.rows[k].overlap_percentage # skills_df[i].overlap_percentage
       /\ call.impl = "service" =>
             /\ ret.status = "return"
             /\ Survivors # {} => (ret.err = NoError /\ ret.rows # <<>>)

\* the service returns candidates while one target of the specialty has no
\* pay record in the bracket and another has one with a null average
C13_Witness ==
    /\ Returned
    /\ call.impl = "service"
    /\ Unrecorded # {}
    /\ NullAverage # {}
    /\ ret.err = NoError
    /\ ret.rows # <<>>

\* the shared_skill_names cell of the overlap row a returned row came from
SourceCell(r) ==
    LET i == CHOOSE i \in DOMAIN skills_df :
                 skills_df[i].overlap_percentage = r.overlap_percentage
    IN skills_df[i].shared_skill_names

\* a text that is no encoding of a list: eval() rejects it, or gives a value
\* that is no list
Unparseable(x) ==
    /\ x.type = "str"
    /\ LET e == py_eval(x.chars)
       IN e.raises \/ e.value.type # "list"

\* the characters of a text or of a list of names that belong to names:
\* everything but the brackets at the ends, the quotes, the commas and the
\* blanks
NameChars(chars) ==
    SelectSeq(strip(chars, {"[", "]"}),
              LAMBDA c : c \notin (Quotes \cup {","} \cup Whitespace))

C15_EncodedNamesParsed == cell.stage = "parsed" => cell.skills = cell.names

\* a name as a skill is written: not empty, no blank at either end
Trimmed(name) ==
    /\ name # <<>>
    /\ name[1] \notin Whitespace
    /\ name[Len(name)] \notin Whitespace

\* C15, amended: the bracketed text of quoted, comma-separated names is
\* parsed into exactly those names in the same order, without brackets or
\* quotes, for every such encoding of names that are not empty, neither
\* start nor end with a blank, and contain no comma, quote or bracket.
C15_TrimmedNamesParsed ==
    (cell.stage = "parsed" /\ \A n \in DOMAIN cell.names : Trimmed(cell.names[n]))
    => cell.skills = cell.names

\* two different names, one with a blank inside, written with double quotes
C15_Witness ==
    /\ cell.stage = "parsed"
    /\ cell.quote = "\""
    /\ cell.names = << <<"a", " ", "a">>, <<"a">> >>
    /\ cell.skills = cell.names

\* C16: when the shared skills of an overlap row arrive as a structured
\* collection, the returned candidate's shared_skills holds exactly those
\* names.
C16_CollectionKept ==
    Returned =>
        \A k \in DOMAIN ret.rows :
            LET x == SourceCell(ret.rows[k])
                got == ret.rows[k].shared_skill_names
            IN x.type = "list" =>
                  /\ got.type = "list"
                  /\ {got.items[n] : n \in DOMAIN got.items}
                        = {x.items[n] : n \in DOMAIN x.items}

Alone(s) ==
    compute(sess[s].args, sess[s].snap[1], sess[s].snap[2])

\* C18: with calls of several sessions interleaved and the snapshot swapped
\* between and during them, each call returns what it returns alone on the
\* snapshot it was passed.
C18_IsolatedCalls ==
    \A s \in DOMAIN sess : sess[s].pc = "done" => sess[s].result = Alone(s)

\* two calls on two snapshots have returned candidates, the data layer
\* serves a third snapshot by now, and the first call would return something
\* else on the pay table of either other snapshot
C18_Witness ==
    /\ sess # NoSessions
    /\ \E s, t \in DOMAIN sess :
          /\ sess[s].pc = "done"
          /\ sess[t].pc = "done"
          /\ sess[s].result.rows # <<>>
          /\ sess[t].result.rows # <<>>
          /\ sess[s].snap # sess[t].snap
          /\ <<skills_df, avg_pay_df>> \notin {sess[s].snap, sess[t].snap}
          /\ compute(sess[s].args, sess[s].snap[1], avg_pay_df) # sess[s].result
          /\ compute(sess[s].args, sess[s].snap[1], sess[t].snap[2]) # sess[s].result

\* C19: the engine called with an unknown base pay (None or NaN) and a
\* specialty that has overlap rows returns the no-positive-transfer reason
\* with an empty list: never a candidate, never an exception.
C19_UnknownPayNoTransfer ==
    (/\ call # NoCall
     /\ "via" \in DOMAIN call
     /\ ret.status # "warned"
     /\ call.user_base_pay \in UnknownPays
     /\ call.specialty \notin {None, Empty}
     /\ Matching # {})
    => /\ ret.status = "return"
       /\ ret.err = NoPositiveTransfer
       /\ ret.rows = <<>>

\* the specialty of a profile is missing
MissingSpecialtyValue(c) == c.specialty \in {None, Empty}

\* C20: both callers validate the profile before the engine: the engine is
\* never reached with an unknown base pay (None or NaN) or a missing
\* specialty, and a profile with a specialty and a known base pay is never
\* turned away as missing.
C20_CallersValidate ==
    (call # NoCall /\ "via" \in DOMAIN call /\ call.via \in {"render", "app"})
    => /\ ret.status # "warned"
          => (call.user_base_pay \notin UnknownPays /\ ~MissingSpecialtyValue(call))
       /\ ret.status = "warned"
          => (call.user_base_pay \in UnknownPays \/ MissingSpecialtyValue(call))

\* C21: in the module-level function, a malformed shared_skill_names text
\* on a surviving candidate row never makes the call raise; the candidate is
\* returned with an empty skill list.
C21_ModuleToleratesMalformed ==
    (/\ call # NoCall
     /\ call.impl = "module"
     /\ call.specialty # None
     /\ \E s \in Survivors : Unparseable(skills_df[s[1]].shared_skill_names))
    => /\ ret.status = "return"
       /\ \A k \in DOMAIN ret.rows :
             Unparseable(SourceCell(ret.rows[k]))
             => ret.rows[k].shared_skill_names = PyList(<<>>)

Brackets == {"[", "]"}

\* C22 as claimed: for every string value, each token safe_parse_skills
\* gives is non-empty, has no blank at either end, and holds no quote and
\* no enclosing bracket; a value that is no string, or a string that is
\* empty after stripping, gives the empty list.
C22_TokensClean ==
    cell.stage = "parsed" =>
        /\ \A n \in DOMAIN cell.skills :
              LET tok == cell.skills[n]
              IN /\ Trimmed(tok)
                 /\ \A c \in DOMAIN tok : tok[c] \notin Quotes
                 /\ tok[1] \notin Brackets
                 /\ tok[Len(tok)] \notin Brackets
        /\ cell.text.type # "str" => cell.skills = <<>>
        /\ (cell.text.type = "str"
              /\ remove(remove(strip(cell.text.chars, Brackets), "'"), "\"") = <<>>)
           => cell.skills = <<>>

\* C22, amended: for every string value, each token safe_parse_skills gives
\* is non-empty, has no blank at either end, and holds no quote and no
\* comma (a bracket that is not at an end of the text stays in its token); a
\* value that is no string, or a string with nothing but blanks, commas and
\* quotes between its enclosing brackets, gives the empty list, and every
\* other string gives at least one token.
C22_TokensTrimmedUnquoted ==
    cell.stage = "parsed" =>
        /\ \A n \in DOMAIN cell.skills :
              LET tok == cell.skills[n]
              IN /\ Trimmed(tok)
                 /\ \A c \in DOMAIN tok : tok[c] \notin (Quotes \cup {","})
        /\ cell.text.type # "str" => cell.skills = <<>>
        /\ cell.text.type = "str"
           => /\ (cell.skills = <<>>) <=> (NameChars(cell.text.chars) = <<>>)
              /\ SelectSeq(join(cell.skills, <<>>), LAMBDA c : c \notin Whitespace)
                    = NameChars(cell.text.chars)

\* a text with a bracket that is not at one of its ends: two tokens, the
\* second starting with the bracket
C22_Witness ==
    /\ cell.stage = "parsed"
    /\ cell.text = PyStr(<<"a", ",", "[", "a">>)
    /\ cell.skills = << <<"a">>, <<"[", "a">> >>

\* C23: no returned candidate has a target specialty equal, ignoring case,
\* to the query specialty, even when the overlap table holds a row from the
\* specialty to itself and the specialty's benchmark exceeds the base pay.
C23_NeverOwnSpecialty ==
    Returned =>
        \A k \in DOMAIN ret.rows :
            ~SameIgnoringCase(ret.rows[k].specialty_2, call.specialty)

\* C24: with at most one pay record per (experience group, specialty,
\* region), each target specialty is at most once in the returned list, also
\* when overlap rows whose specialty_1 differ only in letter case all match
\* the query specialty.
C24_TargetsOnce ==
    Returned =>
        \A a, b \in DOMAIN ret.rows :
            ret.rows[a].specialty_2 = ret.rows[b].specialty_2 => a = b

\* the rows of a table in the opposite order
Reversed(rows) == [k \in DOMAIN rows |-> rows[Len(rows) + 1 - k]]

\* the target specialties a call returns
TargetSet(r) == {r.rows[k].specialty_2 : k \in DOMAIN r.rows}

\* C25: the set of returned target specialties does not depend on the row
\* order of the overlap table or of the pay table, also when more than 5
\* candidates survive and several tie on pay_increase at the cut-off.
C25_RowOrderIrrelevant ==
    Returned =>
        /\ TargetSet(compute(call, Reversed(skills_df), avg_pay_df)) = TargetSet(ret)
        /\ TargetSet(compute(call, skills_df, Reversed(avg_pay_df))) = TargetSet(ret)

\* the other implementation
OtherImpl(c) == [c EXCEPT !.impl = IF c.impl = "service" THEN "module" ELSE "service"]

\* the target, the pay increase and the shared skills of each returned row
Candidates(r) ==
    [k \in DOMAIN r.rows |->
        <<r.rows[k].specialty_2, r.rows[k].pay_increase, r.rows[k].shared_skill_names>>]

\* C26: the two implementations agree: for every specialty, numeric base
\* pay, bracket and tables both return the same reason and the same ordered
\* candidates with the same target, pay_increase and shared skills.
C26_ImplementationsAgree ==
    call # NoCall =>
        LET other == compute(OtherImpl(call), skills_df, avg_pay_df)
        IN /\ other.status = ret.status
           /\ other.err = ret.err
           /\ Candidates(other) = Candidates(ret)

\* C27: refine_skill_transfer_bullets returns a pair (bullets, prompt) when
\* the generation succeeds and when it fails, so the unpacking in app.py
\* succeeds and a failure reaches the user as a bullet, not as an exception.
C27_RefineReturnsPair ==
    (gpt # NoGpt /\ gpt.impl = "module")
    => /\ gpt.value.type = "tuple"
       /\ Len(gpt.value.items) = 2
       /\ gpt.stage = "shown"
       /\ ~gpt.reply.ok => gpt.bullets = << <<"GPT Error: ", gpt.reply.error>> >>

\* C28: check_password returns True only if the most recent entry had the
\* expected hash and no logout has happened since; after a logout it returns
\* False until a correct password is entered again; and after a correct
\* entry the plaintext password is not in the session state.
C28_GateFollowsLastEntry ==
    auth # NoAuth =>
        /\ auth.returned = "True" => (auth.last = "ok" /\ ~auth.logout_since)
        /\ (auth.logout_since /\ auth.returned # "pending") => auth.returned = "False"
        /\ auth.last = "ok" => auth.password \in {"absent", ""}

\* the gate lets the user in again after a logout and a wrong entry
C28_Witness ==
    /\ auth # NoAuth
    /\ auth.returned = "True"
    /\ auth.logouts >= 1
    /\ auth.password = "absent"

\* C29: password_entered compares the SHA-256 of the entry with the
\* configured secret APP_PASSWORD_HASH: the verdict is True for a password
\* whose hash is the secret and False for every other password.
C29_ComparesWithSecret ==
    (auth # NoAuth /\ auth.last # "none" /\ auth.password_correct # "absent")
    => ((auth.password_correct = "True") <=> (sha256(auth.entry) = auth.secret))

\* sum(entry[field] for entry in calls_by_type.values()), in floats
RECURSIVE SumByType(_, _)
SumByType(by_type, field) ==
    IF by_type = <<>> THEN 0
    ELSE LET n == Len(by_type)
         IN fl(SumByType(SubSeq(by_type, 1, n - 1), field) + by_type[n][field])

\* the costs of the calls added since the last reset, of one type or of all
CostsOf(log, types) ==
    LET kept == SelectSeq(log, LAMBDA entry : entry[1] \in types)
    IN [k \in DOMAIN kept |-> kept[k][2]]

\* the sum of some costs as real numbers
RECURSIVE ExactSum(_)
ExactSum(cs) == IF cs = <<>> THEN 0 ELSE cs[1] + ExactSum(Tail(cs))

\* the sum of some costs added one after the other in floats
RECURSIVE FloatSum(_)
FloatSum(cs) ==
    IF cs = <<>> THEN 0
    ELSE fl(FloatSum(SubSeq(cs, 1, Len(cs) - 1)) + cs[Len(cs)])

\* C30 as claimed: after any sequence of constructions, add_call and reset,
\* total_calls is the sum of the per-type counts and total_cost is the sum
\* of the per-type costs; another CostTracker keeps the totals; reset leaves
\* 0 calls, a cost of 0 and no type.
C30_TotalsAreSums ==
    cost # NoCost =>
        /\ cost.tracker.total_calls = SumByType(cost.tracker.calls_by_type, "count")
        /\ cost.tracker.total_cost = SumByType(cost.tracker.calls_by_type, "cost")
        /\ cost.tracker.total_calls = Len(cost.log)
        /\ cost.last = "reset" => cost.tracker = EmptyTracker

\* C30, amended: total_calls is the sum of the per-type counts; total_cost
\* is the floating-point sum of the costs of all calls in call order and
\* each per-type cost is the floating-point sum of the costs of its type in
\* call order, so that total_cost equals the sum of the per-type costs
\* whenever no addition rounds, and may differ from it by rounding
\* otherwise; another CostTracker keeps the totals; reset leaves 0 calls, a
\* cost of 0 and no type.
C30_TotalsAreFloatSums ==
    cost # NoCost =>
        LET t == cost.tracker
            all == CostsOf(cost.log, InsightTypes)
        IN /\ t.total_calls = Len(cost.log)
           /\ t.total_calls = ExactSum([k \in DOMAIN t.calls_by_type |->
                                           t.calls_by_type[k].count])
           /\ t.total_cost = FloatSum(all)
           /\ \A k \in DOMAIN t.calls_by_type :
                 /\ t.calls_by_type[k].cost
                       = FloatSum(CostsOf(cost.log, {t.calls_by_type[k].type}))
                 /\ t.calls_by_type[k].count
                       = Len(CostsOf(cost.log, {t.calls_by_type[k].type}))
           /\ \A a, b \in DOMAIN t.calls_by_type :
                 t.calls_by_type[a].type = t.calls_by_type[b].type => a = b
           /\ ExactSum(all) <= 2 ^ MantissaBits
              => t.total_cost = SumByType(t.calls_by_type, "cost")
           /\ cost.last = "reset" => t = EmptyTracker

\* a second CostTracker has been built after three calls of two types whose
\* costs round on the way, and the totals are still those of the calls
C30_Witness ==
    /\ cost # NoCost
    /\ cost.objects = 2
    /\ cost.last = "init"
    /\ cost.tracker.total_calls = 3
    /\ Len(cost.tracker.calls_by_type) = 2
    /\ cost.tracker.total_cost # ExactSum(CostsOf(cost.log, InsightTypes))

====
